---- MODULE Spec2Model ----
(***************************************************************************)
(* Schedule routes of the smart-attendance backend                         *)
(* (server/backend-api/app/api/routes/schedule.py): the entry store        *)
(* db.schedules, the five request handlers, and the pure helpers they use  *)
(* (ObjectId validation, strptime("%H:%M"), list.sort); the legacy         *)
(* migration (server/backend-api/migrate_schedules.py); and the embeddings *)
(* files of the face service (ml-face-service/app/storage/embeddings.py).  *)
(*                                                                         *)
(* Spec runs one request at a time; SpecConcurrent splits                  *)
(* replace_full_schedule at the await between its two store operations;    *)
(* SpecMigrate and SpecMigrateRace run the migration, whole and split at   *)
(* its awaits; SpecEmbeddings runs save_embedding split between its read   *)
(* and its write of the file.                                              *)
(***************************************************************************)
EXTENDS Integers, Sequences, FiniteSets, TLC

VARIABLES
  schedules,  \* db.schedules, in insertion order
  nextId,     \* the next ObjectId the store hands out
  resp,       \* the last request and its answer
  calls,      \* the replace_full_schedule calls begun, each with its position
  legacy,     \* the legacy teacher records the migration reads
  runs,       \* the migrate() runs begun, each with its position
  files,      \* the embeddings directory: student_id -> content of the file
  saves       \* the save_embedding calls begun, each with its position

vars == <<schedules, nextId, resp, calls, legacy, runs, files, saves>>

\* what the schedule routes leave alone
migrateVars == <<legacy, runs>>
embeddingVars == <<files, saves>>

(* ---------------------------------------------------------------------- *)
(* Bounds                                                                  *)
(* ---------------------------------------------------------------------- *)
\* number of ObjectIds the store hands out before inserts are cut off
MaxId == 2
\* longest list handed to replace_full_schedule
MaxList == 2
\* number of replace_full_schedule calls that get as far as their second phase
MaxCalls == 2
\* number of migrate runs
MaxRuns == 2
\* number of periods of a day of the legacy timetable
MaxPeriods == 2
\* number of save_embedding calls
MaxSaves == 2

(* ---------------------------------------------------------------------- *)
(* Python values                                                           *)
(* ---------------------------------------------------------------------- *)
\* Python None in a string-typed field
None == "<None>"
\* Python None in an int-typed field
NoneInt == -1

\* truthiness of an Optional[str]
Truthy(v) == v # None /\ v # ""
\* truthiness of an Optional[int]
TruthyInt(n) == n # NoneInt /\ n # 0

Digits == {"0", "1", "2", "3", "4", "5", "6", "7", "8", "9"}
HexDigits == Digits \cup {"a", "b", "c", "d", "e", "f", "A", "B", "C", "D", "E", "F"}

DigitVal(c) ==
  CASE c = "0" -> 0 [] c = "1" -> 1 [] c = "2" -> 2 [] c = "3" -> 3 [] c = "4" -> 4
    [] c = "5" -> 5 [] c = "6" -> 6 [] c = "7" -> 7 [] c = "8" -> 8 [] c = "9" -> 9

\* subject ids as they arrive in a request body
SubjA == "64b0c0ffee00000000000001"
SubjB == "64b0c0ffee00000000000002"
SubjMalformed == "maths-101"

\* the characters of the strings the model uses
Chars(s) ==
  CASE s = "09:00" -> <<"0", "9", ":", "0", "0">>
    [] s = "08:00" -> <<"0", "8", ":", "0", "0">>
    [] s = "10:30" -> <<"1", "0", ":", "3", "0">>
    [] s = "10:00" -> <<"1", "0", ":", "0", "0">>
    [] s = "9:00"  -> <<"9", ":", "0", "0">>
    [] s = "24:00" -> <<"2", "4", ":", "0", "0">>
    [] s = "10:60" -> <<"1", "0", ":", "6", "0">>
    [] s = "bad"   -> <<"b", "a", "d">>
    [] s = ""      -> <<>>
    [] s = SubjA   -> <<"6", "4", "b", "0", "c", "0", "f", "f", "e", "e", "0", "0",
                        "0", "0", "0", "0", "0", "0", "0", "0", "0", "0", "0", "1">>
    [] s = SubjB   -> <<"6", "4", "b", "0", "c", "0", "f", "f", "e", "e", "0", "0",
                        "0", "0", "0", "0", "0", "0", "0", "0", "0", "0", "0", "2">>
    [] s = SubjMalformed -> <<"m", "a", "t", "h", "s", "-", "1", "0", "1">>
    [] s = "4th Sem" -> <<"4", "t", "h", " ", "S", "e", "m">>
    [] s = "Sem 12"  -> <<"S", "e", "m", " ", "1", "2">>
    [] s = "Final"   -> <<"F", "i", "n", "a", "l">>

\* str(n) for the semesters the model uses
Str(n) ==
  CASE n = 0 -> "0" [] n = 1 -> "1" [] n = 2 -> "2" [] n = 3 -> "3" [] n = 4 -> "4"
    [] n = 5 -> "5" [] n = 6 -> "6" [] n = 7 -> "7" [] n = 8 -> "8" [] n = 9 -> "9"

(* ---------------------------------------------------------------------- *)
(* bson.ObjectId                                                           *)
(* ---------------------------------------------------------------------- *)
\* ObjectId.is_valid(oid): false for None and "", else 24 hex characters
ObjectId_is_valid(v) ==
  /\ Truthy(v)
  /\ \E cs \in { Chars(v) } : Len(cs) = 24 /\ \A i \in 1..24 : cs[i] \in HexDigits

\* ObjectId(s) for a valid s: a value of another type than the string s
ObjectId(s) ==
  CASE s = SubjA -> "ObjectId('64b0c0ffee00000000000001')"
    [] s = SubjB -> "ObjectId('64b0c0ffee00000000000002')"

\* a schedule id in the URL: n >= 1 is the hex string of the n-th ObjectId
\* the store handed out, MalformedId a string that is not 24 hex characters
MalformedId == 0
ScheduleId_is_valid(sid) == sid >= 1

(* ---------------------------------------------------------------------- *)
(* Collaborators: callers, profile store, subject catalog                  *)
(* ---------------------------------------------------------------------- *)
\* current_user as supplied by get_current_user
Users ==
  { [_id |-> "u1", role |-> "teacher"],
    [_id |-> "u2", role |-> "teacher"],
    [_id |-> "u3", role |-> "teacher"],
    [_id |-> "u4", role |-> "student"],
    [_id |-> "u5", role |-> "student"],
    [_id |-> "u6", role |-> "student"] }

\* db.teachers
teachers ==
  { [_id |-> "t1", user_id |-> "u1"],
    [_id |-> "t2", user_id |-> "u2"] }

\* db.students
students ==
  { [user_id |-> "u4", branch |-> "CSE", semester |-> 4],
    [user_id |-> "u5", branch |-> None, semester |-> 4],
    [user_id |-> "u6", branch |-> "CSE", semester |-> NoneInt] }

\* db.subjects
subjects == { [_id |-> ObjectId(SubjA), name |-> "Maths"] }

\* a bug: the lookup forgets the user_id filter
FindTeacher_AnyProfile(user_id) == teachers

\* find_one on a collection: the matching documents (at most one here)
FindTeacher(user_id) == { t \in teachers : t.user_id = user_id }
FindStudent(user_id) == { s \in students : s.user_id = user_id }
FindSubject(oid) == { s \in subjects : s._id = oid }

(* ---------------------------------------------------------------------- *)
(* Request bodies                                                          *)
(* ---------------------------------------------------------------------- *)
days_of_week ==
  <<"Monday", "Tuesday", "Wednesday", "Thursday", "Friday", "Saturday", "Sunday">>

\* CreateScheduleRequest bodies (entry.dict()), one per case of the handlers
Payloads ==
  { [day |-> "Monday", slot |-> 1, start_time |-> "09:00", end_time |-> "10:00",
     subject_id |-> SubjA, room_number |-> "R1", branch |-> "CSE", semester |-> 4,
     teacher_id |-> "t2"],
    [day |-> "Monday", slot |-> 2, start_time |-> "08:00", end_time |-> "09:00",
     subject_id |-> SubjB, room_number |-> None, branch |-> "ECE", semester |-> 4,
     teacher_id |-> None],
    [day |-> "Monday", slot |-> 0, start_time |-> "bad", end_time |-> "10:00",
     subject_id |-> SubjMalformed, room_number |-> None, branch |-> "CSE", semester |-> 4,
     teacher_id |-> "t1"],
    [day |-> "Tuesday", slot |-> 3, start_time |-> "10:30", end_time |-> None,
     subject_id |-> None, room_number |-> None, branch |-> "CSE", semester |-> NoneInt,
     teacher_id |-> None] }

RECURSIVE SeqsUpTo(_, _)
\* the sequences over S of length at most n
SeqsUpTo(S, n) ==
  IF n = 0 THEN { <<>> }
  ELSE LET shorter == SeqsUpTo(S, n - 1)
       IN  shorter \cup { Append(s, x) : s \in { t \in shorter : Len(t) = n - 1 }, x \in S }

\* the request bodies of replace_full_schedule: lists that repeat no entry
EntryLists ==
  { l \in SeqsUpTo(Payloads, MaxList) : \A i, j \in 1..Len(l) : l[i] = l[j] => i = j }

(* ---------------------------------------------------------------------- *)
(* Responses                                                               *)
(* ---------------------------------------------------------------------- *)
\* the last request and what the handler answered: the handler, the caller,
\* the path parameter, the status and message, the classes and current_day of
\* a read, the documents a delete removed and the ids of the documents inserted
Response(op, user, schedule_id, status, detail, classes, current_day, deleted, inserted) ==
  [op |-> op, user |-> user, schedule_id |-> schedule_id, status |-> status,
   detail |-> detail, classes |-> classes, current_day |-> current_day,
   deleted |-> deleted, inserted |-> inserted]

NoUser == [_id |-> "", role |-> ""]

NoResponse == Response("none", NoUser, MalformedId, 0, "", <<>>, None, <<>>, {})

\* an exception no handler catches: the framework answers 500
InternalServerError == [status |-> 500, detail |-> "Internal Server Error", classes |-> <<>>]

(* ---------------------------------------------------------------------- *)
(* Sequence helpers                                                        *)
(* ---------------------------------------------------------------------- *)
Min(a, b) == IF a <= b THEN a ELSE b

\* cursor.to_list(length): at most length documents, in cursor order
to_list(s, length) == SubSeq(s, 1, Min(Len(s), length))

Range(s) == { s[i] : i \in 1..Len(s) }

\* db.schedules.find(query): the documents matching query, in natural order
Find(store, Matches(_)) == SelectSeq(store, Matches)

(* ---------------------------------------------------------------------- *)
(* datetime.strptime(x, "%H:%M").time() and list.sort(key=...)             *)
(* ---------------------------------------------------------------------- *)
\* the sort key of a parsed time: (hour, minute) compared lexicographically
ValueError == -1

\* _strptime: the format becomes the regex (?P<H>2[0-3]|[0-1]\d|\d):(?P<M>[0-5]\d|\d),
\* matched at the start with ordered alternatives; data left over is a ValueError
strptime(x) ==
  LET Parse(cs) ==
        LET n == Len(cs)
            IsD(i) == i <= n /\ cs[i] \in Digits
            H2(i) == /\ i + 1 <= n
                     /\ \/ cs[i] = "2" /\ cs[i + 1] \in {"0", "1", "2", "3"}
                        \/ cs[i] \in {"0", "1"} /\ cs[i + 1] \in Digits
            M2(i) == /\ i + 1 <= n
                     /\ cs[i] \in {"0", "1", "2", "3", "4", "5"} /\ cs[i + 1] \in Digits
            \* ":" at i, then the minute: the end of the match, 0 when there is none
            RestEnd(i) == IF i <= n /\ cs[i] = ":"
                          THEN IF M2(i + 1) THEN i + 3
                               ELSE IF IsD(i + 1) THEN i + 2 ELSE 0
                          ELSE 0
            Minute(i, end) == IF end = i + 3
                              THEN 10 * DigitVal(cs[i + 1]) + DigitVal(cs[i + 2])
                              ELSE DigitVal(cs[i + 1])
        IN  IF H2(1) /\ RestEnd(3) # 0
            THEN IF RestEnd(3) # n + 1 THEN ValueError
                 ELSE 60 * (10 * DigitVal(cs[1]) + DigitVal(cs[2])) + Minute(3, RestEnd(3))
            ELSE IF IsD(1) /\ RestEnd(2) # 0
            THEN IF RestEnd(2) # n + 1 THEN ValueError
                 ELSE 60 * DigitVal(cs[1]) + Minute(2, RestEnd(2))
            ELSE ValueError
  IN  CHOOSE t \in { Parse(cs) : cs \in { Chars(x) } } : TRUE

\* insert x with key k behind every element of the sorted s whose key is not
\* greater; s holds <<key, element>> pairs
InsertByKey(s, k, x) ==
  LET n == Cardinality({ i \in 1..Len(s) : s[i][1] <= k })
  IN  SubSeq(s, 1, n) \o << <<k, x>> >> \o SubSeq(s, n + 1, Len(s))

RECURSIVE SortPairs(_, _)
\* the <<key, element>> pairs of xs in stable ascending order of keys
SortPairs(xs, keys) ==
  IF xs = <<>> THEN <<>>
  ELSE CHOOSE r \in { InsertByKey(s, keys[Len(xs)], xs[Len(xs)]) :
                      s \in { SortPairs(SubSeq(xs, 1, Len(xs) - 1),
                                        SubSeq(keys, 1, Len(xs) - 1)) } } : TRUE

\* list.sort(key=...) once every key is computed: stable, ascending
StableSort(xs, keys) ==
  CHOOSE r \in { [i \in 1..Len(xs) |-> sorted[i][2]] :
                 sorted \in { SortPairs(xs, keys) } } : TRUE

\* a bug: the sort goes on past a start_time that does not parse
SortByStartTime_SkipUnparsed(classes) ==
  StableSort(classes, [i \in 1..Len(classes) |-> strptime(classes[i].start_time)])

\* today_classes.sort(key=...) inside try/except ValueError: list.sort computes
\* every key before it moves anything, so a ValueError leaves the list as it was
SortByStartTime(classes) ==
  CHOOSE r \in { IF \E i \in 1..Len(classes) : keys[i] = ValueError
                 THEN classes
                 ELSE StableSort(classes, keys) :
                 keys \in { [i \in 1..Len(classes) |-> strptime(classes[i].start_time)] } } :
    TRUE

(* ---------------------------------------------------------------------- *)
(* Read handlers                                                           *)
(* ---------------------------------------------------------------------- *)
\* ClassPeriod(...): the response model of one class
ClassPeriod(id, day, subject, grade, room, start_time, end_time, slot) ==
  [id |-> id, day |-> day, subject |-> subject, grade |-> grade, room |-> room,
   start_time |-> start_time, end_time |-> end_time, slot |-> slot]

\* pydantic validation of ClassPeriod: start_time and end_time are str, slot is
\* int, none of them Optional
ClassPeriodValid(start_time, end_time, slot) ==
  start_time # None /\ end_time # None /\ slot # NoneInt

\* the subject name lookup both read handlers make for a stored entry
SubjectName(s) ==
  IF Truthy(s.subject_id) /\ FindSubject(s.subject_id) # {}
  THEN (CHOOSE subject \in FindSubject(s.subject_id) : TRUE).name
  ELSE "Unknown Subject"

\* grade=str(s.get("semester")) if s.get("semester") else None
Grade(s) == IF TruthyInt(s.semester) THEN Str(s.semester) ELSE None

\* a bug: the check forgets the semester
CohortComplete_BranchOnly(branch, semester) == Truthy(branch)

\* "if not branch or not semester: return []", negated
CohortComplete(branch, semester) == Truthy(branch) /\ TruthyInt(semester)

\* a bug: the query forgets the branch
CohortQuery_SemesterOnly(branch, semester, s) == s.semester = semester

\* query["branch"] = branch; query["semester"] = semester, applied to entry s
CohortQuery(branch, semester, s) == s.branch = branch /\ s.semester = semester

\* a bug: the filter forgets the owner
TeacherQuery_AnyOwner(teacher, s) == TRUE

\* query["teacher_id"] = teacher["_id"], applied to entry s
TeacherQuery(teacher, s) == s.teacher_id = teacher._id

\* get_full_schedule: [status, detail, classes]
get_full_schedule(current_user, store) ==
  LET user_id == current_user._id
      role == current_user.role
      Build(found) ==
        IF \E i \in 1..Len(found) :
             ~ClassPeriodValid(found[i].start_time, found[i].end_time, found[i].slot)
        THEN InternalServerError
        ELSE [status |-> 200, detail |-> "",
              classes |-> [i \in 1..Len(found) |->
                 ClassPeriod(found[i]._id, found[i].day, SubjectName(found[i]),
                             Grade(found[i]), found[i].room_number,
                             found[i].start_time, found[i].end_time, found[i].slot)]]
      Classes(query(_)) ==
        CHOOSE r \in { Build(found) : found \in { to_list(Find(store, query), 1000) } } : TRUE
  IN  IF role = "teacher"
      THEN IF FindTeacher(user_id) = {}
           THEN [status |-> 404, detail |-> "Teacher profile not found", classes |-> <<>>]
           ELSE LET teacher == CHOOSE t \in FindTeacher(user_id) : TRUE
                IN  Classes(LAMBDA s : TeacherQuery(teacher, s))
      ELSE IF role = "student"
      THEN IF FindStudent(user_id) = {}
           THEN [status |-> 404, detail |-> "Student profile not found", classes |-> <<>>]
           ELSE LET student == CHOOSE t \in FindStudent(user_id) : TRUE
                    branch == student.branch
                    semester == student.semester
                IN  IF ~CohortComplete(branch, semester)
                    THEN [status |-> 200, detail |-> "", classes |-> <<>>]
                    ELSE Classes(LAMBDA s : CohortQuery(branch, semester, s))
      ELSE [status |-> 403, detail |-> "Role not authorized", classes |-> <<>>]

\* a bug: the check forgets end_time
HasTimes_StartOnly(s) == Truthy(s.start_time)

\* "if not (start_time and end_time): continue", negated
HasTimes(s) == Truthy(s.start_time) /\ Truthy(s.end_time)

\* get_today_schedule, with now_in_school_tz.weekday() = weekday:
\* [status, detail, current_day, classes]; current_day is days_of_week[weekday + 1]
get_today_schedule(current_user, weekday, store) ==
  LET user_id == current_user._id
      role == current_user.role
      current_day == days_of_week[weekday + 1]
      \* an HTTPException, or an exception nobody catches: no TodayScheduleResponse
      Raised(status, detail) ==
        [status |-> status, detail |-> detail, current_day |-> None, classes |-> <<>>]
      \* the loop over schedules: entries without both times are skipped
      Build(found) ==
        CHOOSE r \in {
          IF \E i \in 1..Len(kept) :
               ~ClassPeriodValid(kept[i].start_time, kept[i].end_time, kept[i].slot)
          THEN Raised(500, "Internal Server Error")
          ELSE [status |-> 200, detail |-> "", current_day |-> current_day,
                classes |-> SortByStartTime([i \in 1..Len(kept) |->
                   ClassPeriod(kept[i]._id, None, SubjectName(kept[i]),
                               Grade(kept[i]), kept[i].room_number,
                               kept[i].start_time, kept[i].end_time, kept[i].slot)])] :
          kept \in { SelectSeq(found, HasTimes) }
        } : TRUE
      Classes(query(_)) ==
        CHOOSE r \in { Build(found) : found \in {
          to_list(Find(store, LAMBDA s : s.day = current_day /\ query(s)), 100) } } : TRUE
  IN  IF role = "teacher"
      THEN IF FindTeacher(user_id) = {}
           THEN Raised(404, "Teacher profile not found")
           ELSE LET teacher == CHOOSE t \in FindTeacher(user_id) : TRUE
                IN  Classes(LAMBDA s : TeacherQuery(teacher, s))
      ELSE IF role = "student"
      THEN IF FindStudent(user_id) = {}
           THEN Raised(404, "Student profile not found")
           ELSE LET student == CHOOSE t \in FindStudent(user_id) : TRUE
                    branch == student.branch
                    semester == student.semester
                IN  IF ~CohortComplete(branch, semester)
                    THEN [status |-> 200, detail |-> "", current_day |-> current_day, classes |-> <<>>]
                    ELSE Classes(LAMBDA s : CohortQuery(branch, semester, s))
      ELSE Raised(403, "Role not authorized")

(* ---------------------------------------------------------------------- *)
(* Mutation handlers                                                       *)
(* ---------------------------------------------------------------------- *)
\* the document insert_one / insert_many stores for doc, under a fresh _id
Stored(doc, id) ==
  [_id |-> id, day |-> doc.day, slot |-> doc.slot, start_time |-> doc.start_time,
   end_time |-> doc.end_time, subject_id |-> doc.subject_id,
   room_number |-> doc.room_number, branch |-> doc.branch, semester |-> doc.semester,
   teacher_id |-> doc.teacher_id]

\* a bug: the documents are stored under the identifiers 1, 2, ... again
InsertMany_ReuseIds(store, docs, first) ==
  store \o [i \in 1..Len(docs) |-> Stored(docs[i], i)]

\* insert_many(docs): the documents appended in order, ids first, first + 1, ...
InsertMany(store, docs, first) ==
  store \o [i \in 1..Len(docs) |-> Stored(docs[i], first + i - 1)]

\* delete_one(query): the store without the first matching document
DeleteOne(store, query(_)) ==
  IF \E i \in 1..Len(store) : query(store[i])
  THEN LET k == CHOOSE i \in 1..Len(store) :
                  query(store[i]) /\ \A j \in 1..(i - 1) : ~query(store[j])
       IN  SubSeq(store, 1, k - 1) \o SubSeq(store, k + 1, Len(store))
  ELSE store

\* delete_many(query): the store without any matching document
DeleteMany(store, query(_)) == SelectSeq(store, LAMBDA s : ~query(s))

\* a bug: an owner named in the request body is kept
StampOwner_KeepSupplied(doc, teacher) ==
  IF doc.teacher_id # None THEN doc ELSE [doc EXCEPT !.teacher_id = teacher._id]

\* doc["teacher_id"] = teacher["_id"]
StampOwner(doc, teacher) == [doc EXCEPT !.teacher_id = teacher._id]

\* a bug: the delete filter forgets the owner
DeleteQuery_IdOnly(schedule_id, teacher, s) == s._id = schedule_id

\* {"_id": ObjectId(schedule_id), "teacher_id": teacher["_id"]}, applied to entry s
DeleteQuery(schedule_id, teacher, s) ==
  s._id = schedule_id /\ s.teacher_id = teacher._id

\* a bug: the filter names the user, not the teacher profile, and matches nothing
ClearSchedule_ByUserId(store, teacher) ==
  DeleteMany(store, LAMBDA s : s.teacher_id = teacher.user_id)

\* a bug: delete_one where delete_many is meant
ClearSchedule_FirstOnly(store, teacher) ==
  DeleteOne(store, LAMBDA s : TeacherQuery(teacher, s))

\* db.schedules.delete_many({"teacher_id": teacher["_id"]})
ClearSchedule(store, teacher) ==
  DeleteMany(store, LAMBDA s : TeacherQuery(teacher, s))

\* a handler's outcome: the answer, the store it leaves, what it deleted and inserted
Outcome(status, detail, store, deleted, inserted) ==
  [status |-> status, detail |-> detail, store |-> store, deleted |-> deleted,
   inserted |-> inserted]

\* create_schedule_entry; id is the _id insert_one would assign
create_schedule_entry(entry, current_user, store, id) ==
  IF current_user.role # "teacher"
  THEN Outcome(403, "Only teachers can manage schedule", store, <<>>, {})
  ELSE IF FindTeacher(current_user._id) = {}
  THEN Outcome(404, "Teacher profile not found", store, <<>>, {})
  ELSE IF ~ObjectId_is_valid(entry.subject_id)
  THEN Outcome(400, "Invalid Subject ID", store, <<>>, {})
  ELSE LET teacher == CHOOSE t \in FindTeacher(current_user._id) : TRUE
           doc == StampOwner([entry EXCEPT !.subject_id = ObjectId(entry.subject_id)],
                             teacher)
       IN  Outcome(201, "Schedule created", InsertMany(store, <<doc>>, id), <<>>, {id})

\* delete_schedule_entry
delete_schedule_entry(schedule_id, current_user, store) ==
  IF current_user.role # "teacher"
  THEN Outcome(403, "Only teachers can manage schedule", store, <<>>, {})
  ELSE IF ~ScheduleId_is_valid(schedule_id)
  THEN Outcome(400, "Invalid ID", store, <<>>, {})
  ELSE IF FindTeacher(current_user._id) = {}
  THEN Outcome(404, "Teacher info not found", store, <<>>, {})
  ELSE LET teacher == CHOOSE t \in FindTeacher(current_user._id) : TRUE
           \* after delete_one: res.deleted_count decides the answer
           Answer(after) ==
             LET deleted == SelectSeq(store, LAMBDA s : s \notin Range(after))
                 deleted_count == Len(store) - Len(after)
             IN  IF deleted_count = 0
                 THEN Outcome(404, "Schedule not found or permission denied",
                              after, <<>>, {})
                 ELSE Outcome(200, "Deleted", after, deleted, {})
       IN  CHOOSE r \in { Answer(after) : after \in {
             DeleteOne(store, LAMBDA s : DeleteQuery(schedule_id, teacher, s)) } } : TRUE

RECURSIVE NewDocs_SkipMissing(_, _, _)
\* a bug: an entry whose subject is not found is left out and the loop goes on
NewDocs_SkipMissing(entries, n, teacher) ==
  LET entry == entries[n]
      Iteration(before) ==
        IF Truthy(entry.subject_id) /\ ObjectId_is_valid(entry.subject_id)
        THEN IF FindSubject(ObjectId(entry.subject_id)) = {}
             THEN before
             ELSE [raised |-> FALSE,
                   new_docs |-> Append(before.new_docs,
                      StampOwner([entry EXCEPT !.subject_id = ObjectId(entry.subject_id)],
                                 teacher))]
        ELSE [raised |-> FALSE,
              new_docs |-> Append(before.new_docs, StampOwner(entry, teacher))]
  IN  IF n = 0 THEN [raised |-> FALSE, new_docs |-> <<>>]
      ELSE CHOOSE r \in { Iteration(before) :
                          before \in { NewDocs_SkipMissing(entries, n - 1, teacher) } } : TRUE

RECURSIVE NewDocs(_, _, _)
\* the loop of replace_full_schedule over entries[1..n]: new_docs so far, and
\* whether an entry's subject was not found (the loop raised)
NewDocs(entries, n, teacher) ==
  LET entry == entries[n]
      Iteration(before) ==
        IF before.raised THEN before
        ELSE IF Truthy(entry.subject_id) /\ ObjectId_is_valid(entry.subject_id)
        THEN IF FindSubject(ObjectId(entry.subject_id)) = {}
             THEN [raised |-> TRUE, new_docs |-> before.new_docs]
             ELSE [raised |-> FALSE,
                   new_docs |-> Append(before.new_docs,
                      StampOwner([entry EXCEPT !.subject_id = ObjectId(entry.subject_id)],
                                 teacher))]
        ELSE [raised |-> FALSE,
              new_docs |-> Append(before.new_docs, StampOwner(entry, teacher))]
  IN  IF n = 0 THEN [raised |-> FALSE, new_docs |-> <<>>]
      ELSE CHOOSE r \in { Iteration(before) :
                          before \in { NewDocs(entries, n - 1, teacher) } } : TRUE

\* replace_full_schedule; id is the first _id insert_many would assign. The
\* messages stand for f"Subject with id {entry.subject_id} not found" and
\* f"Schedule updated with {len(new_docs)} entries"
replace_full_schedule(entries, current_user, store, id) ==
  IF current_user.role # "teacher"
  THEN Outcome(403, "Only teachers can manage schedule", store, <<>>, {})
  ELSE IF FindTeacher(current_user._id) = {}
  THEN Outcome(404, "Teacher profile not found", store, <<>>, {})
  ELSE LET teacher == CHOOSE t \in FindTeacher(current_user._id) : TRUE
           \* after delete_many
           Insert(cleared) ==
             LET deleted == SelectSeq(store, LAMBDA s : s \notin Range(cleared))
                 Finish(loop) ==
                   IF loop.raised
                   THEN Outcome(400, "Subject not found", cleared, deleted, {})
                   ELSE Outcome(200, "Schedule updated",
                                InsertMany(cleared, loop.new_docs, id), deleted,
                                id..(id + Len(loop.new_docs) - 1))
             IN  IF entries = <<>>
                 THEN Outcome(200, "Schedule cleared", cleared, deleted, {})
                 ELSE CHOOSE r \in { Finish(loop) :
                        loop \in { NewDocs(entries, Len(entries), teacher) } } : TRUE
       IN  CHOOSE r \in { Insert(cleared) : cleared \in { ClearSchedule(store, teacher) } } :
             TRUE

(* ---------------------------------------------------------------------- *)
(* State machine: one request at a time                                    *)
(* ---------------------------------------------------------------------- *)
\* no migration and no embedding in sight
NoMigration == legacy = <<>> /\ runs = <<>>
NoEmbeddings == files = <<>> /\ saves = <<>>

Init ==
  /\ schedules = <<>>
  /\ nextId = 1
  /\ resp = NoResponse
  /\ calls = <<>>
  /\ NoMigration
  /\ NoEmbeddings

GetFullSchedule ==
  \E u \in Users :
    \E r \in { get_full_schedule(u, schedules) } :
        /\ resp' = Response("get_full_schedule", u, MalformedId,
                            r.status, r.detail, r.classes, None, <<>>, {})
        /\ UNCHANGED <<schedules, nextId, calls, migrateVars, embeddingVars>>

GetTodaySchedule ==
  \E u \in Users, weekday \in 0..6 :
    \E r \in { get_today_schedule(u, weekday, schedules) } :
        /\ resp' = Response("get_today_schedule", u, MalformedId,
                            r.status, r.detail, r.classes, r.current_day, <<>>, {})
        /\ UNCHANGED <<schedules, nextId, calls, migrateVars, embeddingVars>>

\* a caller the mutation handlers turn away before they read the request
TurnedAway(u) == u.role # "teacher" \/ FindTeacher(u._id) = {}

\* the requests of a caller: all of them, or one of each kind when turned away
BodiesOf(u) == IF TurnedAway(u) THEN { CHOOSE p \in Payloads : TRUE } ELSE Payloads
IdsOf(u) == IF TurnedAway(u) THEN {MalformedId, 1} ELSE {MalformedId} \cup 1..(MaxId + 1)
ListsOf(u) == IF TurnedAway(u) THEN { l \in EntryLists : l \in Seq(BodiesOf(u)) }
              ELSE EntryLists

\* the store hands out at most MaxId ObjectIds
CreateScheduleEntry ==
  \E u \in Users : \E entry \in BodiesOf(u) :
    \E r \in { create_schedule_entry(entry, u, schedules, nextId) } :
        /\ nextId + Cardinality(r.inserted) <= MaxId + 1
        /\ schedules' = r.store
        /\ nextId' = nextId + Cardinality(r.inserted)
        /\ resp' = Response("create_schedule_entry", u, MalformedId,
                            r.status, r.detail, <<>>, None, r.deleted, r.inserted)
        /\ UNCHANGED <<calls, migrateVars, embeddingVars>>

DeleteScheduleEntry ==
  \E u \in Users : \E schedule_id \in IdsOf(u) :
    \E r \in { delete_schedule_entry(schedule_id, u, schedules) } :
        /\ schedules' = r.store
        /\ resp' = Response("delete_schedule_entry", u, schedule_id,
                            r.status, r.detail, <<>>, None, r.deleted, r.inserted)
        /\ UNCHANGED <<nextId, calls, migrateVars, embeddingVars>>

ReplaceFullSchedule ==
  \E u \in Users : \E entries \in ListsOf(u) :
    \E r \in { replace_full_schedule(entries, u, schedules, nextId) } :
        /\ nextId + Cardinality(r.inserted) <= MaxId + 1
        /\ schedules' = r.store
        /\ nextId' = nextId + Cardinality(r.inserted)
        /\ resp' = Response("replace_full_schedule", u, MalformedId,
                            r.status, r.detail, <<>>, None, r.deleted, r.inserted)
        /\ UNCHANGED <<calls, migrateVars, embeddingVars>>

Next ==
  \/ GetFullSchedule
  \/ GetTodaySchedule
  \/ CreateScheduleEntry
  \/ DeleteScheduleEntry
  \/ ReplaceFullSchedule

Spec == Init /\ [][Next]_vars

\* the store keeps insertion order and every _id was handed out once
TypeOK ==
  /\ nextId \in 1..(MaxId + 1)
  /\ \A i \in 1..Len(schedules) : schedules[i]._id \in 1..(nextId - 1)
  /\ \A i, j \in 1..Len(schedules) : i < j => schedules[i]._id < schedules[j]._id

(* ---------------------------------------------------------------------- *)
(* State machine: replace_full_schedule split between its store operations *)
(* ---------------------------------------------------------------------- *)
\* replace_full_schedule up to the await after delete_many: the role and
\* profile checks, phase 1, and the early return for an empty list. pc says
\* whether the call has answered or goes on to the loop
replace_delete_phase(entries, current_user, store) ==
  LET Answered(status, detail, after, deleted) ==
        [pc |-> "answered", status |-> status, detail |-> detail, store |-> after,
         deleted |-> deleted]
      Cleared(cleared) ==
        LET deleted == SelectSeq(store, LAMBDA s : s \notin Range(cleared))
        IN  IF entries = <<>>
            THEN Answered(200, "Schedule cleared", cleared, deleted)
            ELSE [pc |-> "deleted", status |-> NoResponse.status,
                  detail |-> NoResponse.detail, store |-> cleared, deleted |-> deleted]
  IN  IF current_user.role # "teacher"
      THEN Answered(403, "Only teachers can manage schedule", store, <<>>)
      ELSE IF FindTeacher(current_user._id) = {}
      THEN Answered(404, "Teacher profile not found", store, <<>>)
      ELSE CHOOSE r \in { Cleared(cleared) : cleared \in {
             ClearSchedule(store, CHOOSE t \in FindTeacher(current_user._id) : TRUE) } } :
             TRUE

\* replace_full_schedule from the loop on: the subject lookups, the stamping
\* and insert_many, on the store as it is when the call gets there
replace_insert_phase(entries, current_user, store, id) ==
  LET teacher == CHOOSE t \in FindTeacher(current_user._id) : TRUE
      Finish(loop) ==
        IF loop.raised
        THEN Outcome(400, "Subject not found", store, <<>>, {})
        ELSE Outcome(200, "Schedule updated", InsertMany(store, loop.new_docs, id),
                     <<>>, id..(id + Len(loop.new_docs) - 1))
  IN  CHOOSE r \in { Finish(loop) :
                     loop \in { NewDocs(entries, Len(entries), teacher) } } : TRUE

\* a call between its phases (its body, and how many entries its delete_many
\* removed), and what becomes of it (the ids it inserted)
Call(user, entries, pc, deleted_count, inserted) ==
  [user |-> user, entries |-> entries, pc |-> pc, deleted_count |-> deleted_count,
   inserted |-> inserted]

\* a request arrives and runs up to the await after delete_many; calls keeps
\* the calls that did not answer there
ReplaceDeleteMany ==
  /\ Len(calls) < MaxCalls
  /\ \E u \in Users : \E entries \in { l \in ListsOf(u) : Len(l) <= 1 } :
       \E r \in { replace_delete_phase(entries, u, schedules) } :
         /\ schedules' = r.store
         /\ calls' = IF r.pc = "deleted"
                     THEN Append(calls, Call(u, entries, "deleted", Len(r.deleted), {}))
                     ELSE calls
         /\ resp' = Response("replace_full_schedule", u, MalformedId,
                             r.status, r.detail, <<>>, None, r.deleted, {})
         /\ UNCHANGED <<nextId, migrateVars, embeddingVars>>

\* a call between its phases runs to its end
ReplaceInsertMany ==
  \E i \in 1..Len(calls) :
    /\ calls[i].pc = "deleted"
    /\ \E r \in { replace_insert_phase(calls[i].entries, calls[i].user,
                                         schedules, nextId) } :
         /\ nextId + Cardinality(r.inserted) <= MaxId + 1
         /\ schedules' = r.store
         /\ nextId' = nextId + Cardinality(r.inserted)
         /\ calls' = [calls EXCEPT ![i] = Call(calls[i].user, <<>>, "done", 0,
                                               r.inserted)]
         /\ resp' = Response("replace_full_schedule", calls[i].user, MalformedId,
                             r.status, r.detail, <<>>, None, <<>>, r.inserted)
         /\ UNCHANGED <<migrateVars, embeddingVars>>

\* the server dies while a call is between its phases: no answer, no insert
ReplaceCrash ==
  \E i \in 1..Len(calls) :
    /\ calls[i].pc = "deleted"
    /\ calls' = [calls EXCEPT ![i] = Call(calls[i].user, <<>>, "crashed",
                                          calls[i].deleted_count, {})]
    /\ UNCHANGED <<schedules, nextId, resp, migrateVars, embeddingVars>>

\* the teacher of a call between its phases reads the schedule
ReadBetweenPhases ==
  \E i \in 1..Len(calls) :
    /\ calls[i].pc = "deleted"
    /\ \/ \E r \in { get_full_schedule(calls[i].user, schedules) } :
            resp' = Response("get_full_schedule", calls[i].user, MalformedId,
                             r.status, r.detail, r.classes, None, <<>>, {})
       \/ \E weekday \in 0..6 :
            \E r \in { get_today_schedule(calls[i].user, weekday, schedules) } :
              resp' = Response("get_today_schedule", calls[i].user, MalformedId,
                               r.status, r.detail, r.classes, r.current_day, <<>>, {})
    /\ UNCHANGED <<schedules, nextId, calls, migrateVars, embeddingVars>>

\* the caller of the step is a teacher who has a profile
ByTeacher == resp'.user.role = "teacher" /\ FindTeacher(resp'.user._id) # {}

\* the calls that run concurrently are those of teachers who have a profile
NextConcurrent ==
  \/ ReplaceDeleteMany /\ ByTeacher
  \/ ReplaceInsertMany
  \/ ReplaceCrash
  \/ ReadBetweenPhases

SpecConcurrent == Init /\ [][NextConcurrent]_vars

(* ---------------------------------------------------------------------- *)
(* migrate_schedules.py: the legacy timetable                              *)
(* ---------------------------------------------------------------------- *)
\* period["metadata"]: the key missing, null, or a dict with the keys it may carry
Metadata(is, subject_id, room, grade) ==
  [is |-> is, subject_id |-> subject_id, room |-> room, grade |-> grade]

\* a period of a day of a teacher's nested timetable
Period(start, end, slot, metadata) ==
  [start |-> start, end |-> end, slot |-> slot, metadata |-> metadata]

\* legacy periods, one per case of the loop body
LegacyPeriods ==
  { Period("09:00", "10:00", 1, Metadata("dict", SubjA, "R1", "4th Sem")),
    Period("10:00", None, 2, Metadata("dict", SubjA, None, "4th Sem")),
    Period(None, "10:00", 2, Metadata("null", None, None, None)),
    Period("08:00", "09:00", NoneInt, Metadata("missing", None, None, None)),
    Period("10:00", "10:30", 3, Metadata("null", None, None, None)),
    Period("10:30", "10:00", 4, Metadata("dict", SubjMalformed, None, "Final")),
    Period("10:00", "10:30", 5, Metadata("dict", None, "R2", "Sem 12")),
    Period("09:00", "10:30", 6, Metadata("dict", None, None, "Final")) }

\* an element of schedule["timetable"]
DaySchedule(day, periods) == [day |-> day, periods |-> periods]

\* a document of db.teachers as migrate reads it; a teacher without a
\* schedule has the empty timetable
LegacyTeacher(id, branch, timetable) ==
  [_id |-> id, branch |-> branch, timetable |-> timetable]

\* the timetables of the first teacher: none, or one day, named or not
Timetables ==
  { <<>> } \cup
  { <<DaySchedule(day, periods)>> :
      day \in {"Monday", None}, periods \in SeqsUpTo(LegacyPeriods, MaxPeriods) }

\* db.teachers: a teacher of branch CSE with any timetable, and a teacher
\* without branch with one period on Tuesday
LegacyStores ==
  { << LegacyTeacher("t1", "CSE", timetable),
       LegacyTeacher("t2", None,
         <<DaySchedule("Tuesday",
             <<Period("09:00", "10:00", 1, Metadata("dict", SubjB, None, None))>>)>>) >> :
    timetable \in Timetables }

(* ---------------------------------------------------------------------- *)
(* migrate_schedules.py: migrate                                           *)
(* ---------------------------------------------------------------------- *)
RECURSIVE DigitRun(_, _)
\* the digits of cs from position i up to the first character that is no digit
DigitRun(cs, i) ==
  IF i <= Len(cs) /\ cs[i] \in Digits THEN <<cs[i]>> \o DigitRun(cs, i + 1) ELSE <<>>

\* re.search(r"\d+", s).group(): the leftmost longest run of digits of s,
\* <<>> when there is no match
re_search_digits(s) ==
  LET cs == Chars(s)
  IN  IF \E i \in 1..Len(cs) : cs[i] \in Digits
      THEN DigitRun(cs, CHOOSE i \in 1..Len(cs) :
                          cs[i] \in Digits /\ \A j \in 1..(i - 1) : cs[j] \notin Digits)
      ELSE <<>>

RECURSIVE int(_)
\* int(digits)
int(ds) ==
  IF ds = <<>> THEN 0
  ELSE 10 * int(SubSeq(ds, 1, Len(ds) - 1)) + DigitVal(ds[Len(ds)])

\* entry["semester"]: None, or the integer found in a truthy grade label
GuessSemester(grade) ==
  IF ~Truthy(grade) THEN NoneInt
  ELSE LET match == re_search_digits(grade)
       IN  IF match # <<>> THEN int(match) ELSE NoneInt

\* not the "Skipping invalid period" case
Qualifies(day_name, start_time, end_time) ==
  Truthy(day_name) /\ Truthy(start_time) /\ Truthy(end_time)

\* the body of the period loop: the period is skipped, or building its entry
\* raises (ObjectId() of a malformed subject_id raises InvalidId, .get on a
\* null metadata raises AttributeError), or the entry is appended
MigratePeriod(teacher, day_name, period) ==
  LET metadata == period.metadata
      subject_id == IF metadata.is = "dict" THEN metadata.subject_id ELSE None
      Result(kind, entry) == [kind |-> kind, entry |-> entry]
      entry == [day |-> day_name, slot |-> period.slot, start_time |-> period.start,
                end_time |-> period.end, teacher_id |-> teacher._id,
                subject_id |-> IF Truthy(subject_id) /\ ObjectId_is_valid(subject_id)
                               THEN ObjectId(subject_id) ELSE None,
                room_number |-> metadata.room, branch |-> teacher.branch,
                semester |-> GuessSemester(metadata.grade)]
  IN  IF ~Qualifies(day_name, period.start, period.end)
      THEN Result("skipped", entry)
      ELSE IF Truthy(subject_id) /\ ~ObjectId_is_valid(subject_id)
      THEN Result("raised", entry)
      ELSE IF metadata.is = "null"
      THEN Result("raised", entry)
      ELSE Result("appended", entry)

RECURSIVE Concat(_)
\* the concatenation of a sequence of sequences
Concat(ss) == IF ss = <<>> THEN <<>> ELSE Head(ss) \o Concat(Tail(ss))

\* the loop over teachers, days and periods, in order
Scanned(db_teachers) ==
  Concat([t \in 1..Len(db_teachers) |->
    Concat([d \in 1..Len(db_teachers[t].timetable) |->
      [p \in 1..Len(db_teachers[t].timetable[d].periods) |->
         MigratePeriod(db_teachers[t], db_teachers[t].timetable[d].day,
                       db_teachers[t].timetable[d].periods[p])]])])

\* new_schedules after the loops, unless a period raised
scan(db_teachers) ==
  LET results == Scanned(db_teachers)
      appended == SelectSeq(results, LAMBDA r : r.kind = "appended")
  IN  IF \E i \in 1..Len(results) : results[i].kind = "raised"
      THEN [raised |-> TRUE, new_schedules |-> <<>>]
      ELSE [raised |-> FALSE,
            new_schedules |-> [i \in 1..Len(appended) |-> appended[i].entry]]

\* a bug: the guard lets a collection of one document through
AlreadyPopulated_MoreThanOne(count) == count > 1

\* count > 0: "Skipping migration"
AlreadyPopulated(count) == count > 0

\* a variant: the collection is counted again before the insert
BatchInsert_IfStillEmpty(store, new_schedules, id) ==
  IF new_schedules # <<>> /\ store = <<>> THEN InsertMany(store, new_schedules, id) ELSE store

\* if new_schedules: insert_many(new_schedules)
BatchInsert(store, new_schedules, id) ==
  IF new_schedules # <<>> THEN InsertMany(store, new_schedules, id) ELSE store

\* a run of migrate: where it is (counted, scanned) or how it ended (skipped,
\* raised, done), the count it read, its new_schedules and the ids it inserted
Run(pc, count, new_schedules, inserted) ==
  [pc |-> pc, count |-> count, new_schedules |-> new_schedules, inserted |-> inserted]

\* the ids insert_many hands out for a batch
BatchIds(store, new_schedules, id) ==
  { BatchInsert(store, new_schedules, id)[i]._id :
      i \in (Len(store) + 1)..Len(BatchInsert(store, new_schedules, id)) }

\* migrate, run alone: [run, store]
migrate(store, db_teachers, id) ==
  IF AlreadyPopulated(Len(store))
  THEN [run |-> Run("skipped", Len(store), <<>>, {}), store |-> store]
  ELSE CHOOSE r \in {
         IF s.raised
         THEN [run |-> Run("raised", Len(store), <<>>, {}), store |-> store]
         ELSE [run |-> Run("done", Len(store), s.new_schedules,
                           BatchIds(store, s.new_schedules, id)),
               store |-> BatchInsert(store, s.new_schedules, id)] :
         s \in { scan(db_teachers) } } : TRUE

\* the collection before the job: empty, or holding an entry already
InitMigrate ==
  /\ schedules \in { <<>>, InsertMany(<<>>, <<StampOwner(CHOOSE p \in Payloads : TRUE,
                                                        CHOOSE t \in teachers : TRUE)>>, 1) }
  /\ nextId = Len(schedules) + 1
  /\ resp = NoResponse
  /\ calls = <<>>
  /\ legacy \in LegacyStores
  /\ runs = <<>>
  /\ NoEmbeddings

\* one run of the job from start to end
Migrate ==
  /\ Len(runs) < MaxRuns
  /\ \E r \in { migrate(schedules, legacy, nextId) } :
       /\ schedules' = r.store
       /\ nextId' = nextId + Cardinality(r.run.inserted)
       /\ runs' = Append(runs, r.run)
  /\ UNCHANGED <<resp, calls, legacy, embeddingVars>>

SpecMigrate == InitMigrate /\ [][Migrate]_vars

(* ---------------------------------------------------------------------- *)
(* migrate_schedules.py: runs of migrate side by side                      *)
(* ---------------------------------------------------------------------- *)
\* a run starts: count_documents and the guard
MigrateCount ==
  /\ Len(runs) < MaxRuns
  /\ runs' = Append(runs, Run(IF AlreadyPopulated(Len(schedules))
                                THEN "skipped" ELSE "counted", Len(schedules), <<>>, {}))
  /\ UNCHANGED <<schedules, nextId, resp, calls, legacy, embeddingVars>>

\* a run that passed the guard reads db.teachers and builds new_schedules
MigrateScan ==
  \E i \in 1..Len(runs) :
    /\ runs[i].pc = "counted"
    /\ \E s \in { scan(legacy) } :
         runs' = [runs EXCEPT ![i] = Run(IF s.raised THEN "raised" ELSE "scanned",
                                         runs[i].count, s.new_schedules, {})]
    /\ UNCHANGED <<schedules, nextId, resp, calls, legacy, embeddingVars>>

\* a run that built new_schedules inserts them
MigrateInsert ==
  \E i \in 1..Len(runs) :
    /\ runs[i].pc = "scanned"
    /\ schedules' = BatchInsert(schedules, runs[i].new_schedules, nextId)
    /\ nextId' = nextId + Cardinality(BatchIds(schedules, runs[i].new_schedules, nextId))
    /\ runs' = [runs EXCEPT ![i] = Run("done", runs[i].count, runs[i].new_schedules,
                                        BatchIds(schedules, runs[i].new_schedules, nextId))]
    /\ UNCHANGED <<resp, calls, legacy, embeddingVars>>

NextMigrateRace ==
  \/ MigrateCount
  \/ MigrateScan
  \/ MigrateInsert

SpecMigrateRace == InitMigrate /\ [][NextMigrateRace]_vars

(* ---------------------------------------------------------------------- *)
(* embeddings.py: EmbeddingsStorage                                        *)
(* ---------------------------------------------------------------------- *)
\* student ids with a file of their own, and ids that are empty after strip()
StudentIds == {"s1", "s2"}
BlankIds == {"", " "}

\* face embeddings, named
Embeddings == {"e1", "e2"}

\* {student_id}.json: missing, or holding a JSON list, or holding what
\* json.load rejects (an empty file after open(.., 'w'), interleaved writes)
File(exists, valid, data) == [exists |-> exists, valid |-> valid, data |-> data]
Absent == File(FALSE, FALSE, <<>>)
Undecodable == File(TRUE, FALSE, <<>>)

\* "Load existing embeddings or create new list"
LoadExisting(file) == IF file.exists /\ file.valid THEN file.data ELSE <<>>

\* get_embeddings: [found, embeddings], found false for the None answers
get_embeddings(fs, student_id) ==
  IF student_id \in BlankIds THEN [found |-> FALSE, embeddings |-> <<>>]
  ELSE IF ~fs[student_id].exists THEN [found |-> FALSE, embeddings |-> <<>>]
  ELSE IF ~fs[student_id].valid THEN [found |-> FALSE, embeddings |-> <<>>]
  ELSE [found |-> TRUE, embeddings |-> fs[student_id].data]

\* a save_embedding call: its arguments, where it is (loaded, opened) or how
\* it ended (raised, done), and its local list
Save(student_id, embedding, pc, embeddings) ==
  [student_id |-> student_id, embedding |-> embedding, pc |-> pc,
   embeddings |-> embeddings]

\* the storage directory before the calls: each file missing or a valid list
InitEmbeddings ==
  /\ schedules = <<>>
  /\ nextId = 1
  /\ resp = NoResponse
  /\ calls = <<>>
  /\ NoMigration
  /\ files \in [StudentIds -> { Absent, File(TRUE, TRUE, <<>>), File(TRUE, TRUE, <<"e0">>) }]
  /\ saves = <<>>

\* a call starts: the id check, then the file is read and the embedding
\* appended to the local list
SaveLoad ==
  /\ Len(saves) < MaxSaves
  /\ \E student_id \in StudentIds \cup BlankIds, embedding \in Embeddings :
       saves' = Append(saves,
         IF student_id \in BlankIds
         THEN Save(student_id, embedding, "raised", <<>>)
         ELSE Save(student_id, embedding, "loaded",
                   Append(LoadExisting(files[student_id]), embedding)))
  /\ UNCHANGED <<schedules, nextId, resp, calls, migrateVars, files>>

\* open(file_path, 'w') creates or truncates the file
SaveOpen ==
  \E i \in 1..Len(saves) :
    /\ saves[i].pc = "loaded"
    /\ files' = [files EXCEPT ![saves[i].student_id] = Undecodable]
    /\ saves' = [saves EXCEPT ![i].pc = "opened"]
    /\ UNCHANGED <<schedules, nextId, resp, calls, migrateVars>>

\* json.dump writes the local list; with another writer on the same file
\* the bytes of both may interleave into something json.load rejects
SaveDump ==
  \E i \in 1..Len(saves) :
    /\ saves[i].pc = "opened"
    /\ \E written \in
           { File(TRUE, TRUE, saves[i].embeddings) } \cup
           { Undecodable : j \in { k \in 1..Len(saves) :
                                     /\ k # i /\ saves[k].pc = "opened"
                                     /\ saves[k].student_id = saves[i].student_id } } :
         files' = [files EXCEPT ![saves[i].student_id] = written]
    /\ saves' = [saves EXCEPT ![i].pc = "done"]
    /\ UNCHANGED <<schedules, nextId, resp, calls, migrateVars>>

NextEmbeddings ==
  \/ SaveLoad
  \/ SaveOpen
  \/ SaveDump

SpecEmbeddings == InitEmbeddings /\ [][NextEmbeddings]_vars

(* ---------------------------------------------------------------------- *)
(* Vocabulary of the properties                                            *)
(* ---------------------------------------------------------------------- *)
\* the callers that resolve to a teacher profile
TeacherUsers == { u \in Users : u.role = "teacher" /\ FindTeacher(u._id) # {} }

TeacherOf(u) == CHOOSE t \in FindTeacher(u._id) : TRUE

\* the students with a profile
StudentUsers == { u \in Users : u.role = "student" /\ FindStudent(u._id) # {} }

StudentOf(u) == CHOOSE t \in FindStudent(u._id) : TRUE

\* the entries of store owned by teacher t, in store order
OwnedBy(store, t) == SelectSeq(store, LAMBDA s : s.teacher_id = t._id)

Ids(store) == { store[i]._id : i \in 1..Len(store) }

\* the stored entry with identifier id
EntryById(store, id) == CHOOSE e \in Range(store) : e._id = id

\* the field content of a sequence of entries, identifiers left out
Content(store) ==
  [i \in 1..Len(store) |->
     [day |-> store[i].day, slot |-> store[i].slot, start_time |-> store[i].start_time,
      end_time |-> store[i].end_time, subject_id |-> store[i].subject_id,
      room_number |-> store[i].room_number, branch |-> store[i].branch,
      semester |-> store[i].semester, teacher_id |-> store[i].teacher_id]]

\* what a stored subject_id is: an ObjectId, as opposed to a raw request string
IsObjectId(v) == v \in { ObjectId(SubjA), ObjectId(SubjB) }

ReadOps == {"get_full_schedule", "get_today_schedule"}

MutationOps == {"create_schedule_entry", "delete_schedule_entry", "replace_full_schedule"}

\* the callers whose user_id no teacher profile names
Unlinked(u) == \A t \in teachers : t.user_id # u._id

(* ---------------------------------------------------------------------- *)
(* C1                                                                      *)
(* ---------------------------------------------------------------------- *)
\* C1: create_schedule_entry by a teacher with a subject_id that does not
\* resolve in the subject catalog is rejected with 400 and persists nothing:
\* whenever a create was answered, either it was rejected and inserted nothing,
\* or the entry it stored points at an existing subject.
C1_CreateRejectsUnresolvedSubject ==
  resp.op = "create_schedule_entry" =>
    \/ resp.status = 400 /\ resp.inserted = {}
    \/ resp.status \in {403, 404} /\ resp.inserted = {}
    \/ /\ resp.status = 201
       /\ \A id \in resp.inserted :
            FindSubject(EntryById(schedules, id).subject_id) # {}

(* ---------------------------------------------------------------------- *)
(* C2                                                                      *)
(* ---------------------------------------------------------------------- *)
\* C2: a student whose profile has a non-empty branch and semester is only ever
\* returned entries of that branch and semester, by get_full_schedule and by
\* get_today_schedule, whatever the store holds.
C2_StudentSeesOnlyOwnCohort ==
  (resp.op \in ReadOps /\ resp.user \in StudentUsers
     /\ Truthy(StudentOf(resp.user).branch) /\ TruthyInt(StudentOf(resp.user).semester)) =>
    \A i \in 1..Len(resp.classes) :
      /\ resp.classes[i].id \in Ids(schedules)
      /\ EntryById(schedules, resp.classes[i].id).branch = StudentOf(resp.user).branch
      /\ EntryById(schedules, resp.classes[i].id).semester = StudentOf(resp.user).semester

\* a student with a complete cohort key was returned a class while the store
\* also holds an entry of another cohort
C2_Witness ==
  /\ resp.op \in ReadOps /\ resp.user \in StudentUsers
  /\ Truthy(StudentOf(resp.user).branch) /\ TruthyInt(StudentOf(resp.user).semester)
  /\ resp.classes # <<>>
  /\ \E e \in Range(schedules) :
       e.branch # StudentOf(resp.user).branch \/ e.semester # StudentOf(resp.user).semester

(* ---------------------------------------------------------------------- *)
(* C3                                                                      *)
(* ---------------------------------------------------------------------- *)
\* C3: a student whose profile lacks branch or semester gets an empty list of
\* classes and status 200 from get_full_schedule and from get_today_schedule,
\* whatever the store holds.
C3_IncompleteCohortSeesNothing ==
  (resp.op \in ReadOps /\ resp.user \in StudentUsers
     /\ (StudentOf(resp.user).branch = None \/ StudentOf(resp.user).semester = NoneInt)) =>
    resp.status = 200 /\ resp.classes = <<>>

\* a student without semester read a store holding an entry of the student's
\* branch that has no semester either
C3_Witness ==
  /\ resp.op \in ReadOps /\ resp.user \in StudentUsers
  /\ StudentOf(resp.user).semester = NoneInt
  /\ \E e \in Range(schedules) :
       e.branch = StudentOf(resp.user).branch /\ e.semester = NoneInt

(* ---------------------------------------------------------------------- *)
(* C4                                                                      *)
(* ---------------------------------------------------------------------- *)
\* C4: every entry create_schedule_entry or replace_full_schedule has just
\* written carries the teacher_id of the calling user's teacher profile,
\* also when the request body names another owner.
C4_OwnerIsCaller ==
  resp.op \in {"create_schedule_entry", "replace_full_schedule"} =>
    \A id \in resp.inserted :
      /\ resp.user \in TeacherUsers
      /\ EntryById(schedules, id).teacher_id = TeacherOf(resp.user)._id

\* teacher t1 has written an entry from a body whose owner field named t2
C4_Witness ==
  /\ resp.op \in {"create_schedule_entry", "replace_full_schedule"}
  /\ resp.user._id = "u1"
  /\ \E id \in resp.inserted, p \in Payloads :
       /\ p.teacher_id = "t2"
       /\ EntryById(schedules, id).start_time = p.start_time
       /\ EntryById(schedules, id).teacher_id = "t1"

(* ---------------------------------------------------------------------- *)
(* C5                                                                      *)
(* ---------------------------------------------------------------------- *)
\* C5: for a teacher and two well-formed ids, one of an entry another teacher
\* owns and one of no entry at all, delete_schedule_entry answers both with the
\* same status and message, 404 "Schedule not found or permission denied", and
\* leaves the store as it was.
C5_DeleteHidesExistence ==
  \A u \in TeacherUsers, other \in 1..(MaxId + 1), absent \in 1..(MaxId + 1) :
    ( /\ other \in Ids(schedules)
      /\ EntryById(schedules, other).teacher_id # TeacherOf(u)._id
      /\ absent \notin Ids(schedules) ) =>
      \A r1 \in { delete_schedule_entry(other, u, schedules) },
         r2 \in { delete_schedule_entry(absent, u, schedules) } :
          /\ r1.status = 404 /\ r2.status = r1.status
          /\ r1.detail = "Schedule not found or permission denied" /\ r2.detail = r1.detail
          /\ r1.store = schedules /\ r2.store = schedules

\* a teacher has asked to delete an entry of another teacher, which is still stored
C5_Witness ==
  /\ resp.op = "delete_schedule_entry" /\ resp.user \in TeacherUsers
  /\ resp.status = 404
  /\ resp.schedule_id \in Ids(schedules)
  /\ EntryById(schedules, resp.schedule_id).teacher_id # TeacherOf(resp.user)._id

(* ---------------------------------------------------------------------- *)
(* C6                                                                      *)
(* ---------------------------------------------------------------------- *)
\* C6: replace_full_schedule with an empty list leaves the calling teacher with
\* no entry, whatever the teacher had, and a second call with an empty list
\* leaves the store as the first one left it.
C6_EmptyReplaceClears ==
  /\ \A u \in TeacherUsers :
       \A r1 \in { replace_full_schedule(<<>>, u, schedules, nextId) } :
       \A r2 \in { replace_full_schedule(<<>>, u, r1.store, nextId) } :
           /\ r1.status = 200 /\ r1.inserted = {}
           /\ OwnedBy(r1.store, TeacherOf(u)) = <<>>
           /\ r2.status = 200 /\ r2.store = r1.store
  /\ (resp.op = "replace_full_schedule" /\ resp.detail = "Schedule cleared") =>
       OwnedBy(schedules, TeacherOf(resp.user)) = <<>>

\* a teacher who had entries has cleared the schedule
C6_Witness ==
  /\ resp.op = "replace_full_schedule" /\ resp.detail = "Schedule cleared"
  /\ resp.deleted # <<>>
  /\ schedules # <<>>

(* ---------------------------------------------------------------------- *)
(* C7                                                                      *)
(* ---------------------------------------------------------------------- *)
\* C7: when a teacher calls replace_full_schedule twice in a row with the same
\* non-empty list that the first call accepts, the second call is accepted, the
\* teacher's entries have the same field content after both calls, and no
\* identifier of the first call's entries is an identifier after the second.
C7_ReplaceTwiceRecreates ==
  \A u \in TeacherUsers, entries \in EntryLists :
    \A r1 \in { replace_full_schedule(entries, u, schedules, nextId) } :
      (entries # <<>> /\ r1.status = 200) =>
        \A r2 \in { replace_full_schedule(entries, u, r1.store,
                                          nextId + Cardinality(r1.inserted)) } :
        \A mine1 \in { OwnedBy(r1.store, TeacherOf(u)) },
           mine2 \in { OwnedBy(r2.store, TeacherOf(u)) } :
          /\ r2.status = 200
          /\ Len(mine1) = Len(entries)
          /\ Content(mine2) = Content(mine1)
          /\ Ids(mine2) \cap Ids(mine1) = {}

\* a replace has deleted the teacher's entries and stored entries of the same
\* field content under identifiers none of the deleted ones had
C7_Witness ==
  /\ resp.op = "replace_full_schedule" /\ resp.status = 200
  /\ resp.deleted # <<>>
  /\ Content(resp.deleted) = Content(OwnedBy(schedules, TeacherOf(resp.user)))
  /\ Ids(resp.deleted) \cap Ids(schedules) = {}

(* ---------------------------------------------------------------------- *)
(* C8                                                                      *)
(* ---------------------------------------------------------------------- *)
\* C8: replace_full_schedule with a list in which an entry carries a
\* well-formed subject reference that is not in the subject catalog answers
\* 400, inserts none of the entries and leaves the teacher with no entry.
C8_ReplaceAbortsOnMissingSubject ==
  \A u \in TeacherUsers, entries \in EntryLists :
    (\E i \in 1..Len(entries) :
        /\ ObjectId_is_valid(entries[i].subject_id)
        /\ FindSubject(ObjectId(entries[i].subject_id)) = {}) =>
      \A r \in { replace_full_schedule(entries, u, schedules, nextId) } :
          /\ r.status = 400
          /\ r.inserted = {}
          /\ Ids(r.store) \subseteq Ids(schedules)
          /\ OwnedBy(r.store, TeacherOf(u)) = <<>>

\* a replace was aborted, and the teacher who had entries has none
C8_Witness ==
  /\ resp.op = "replace_full_schedule" /\ resp.status = 400
  /\ resp.deleted # <<>>
  /\ OwnedBy(schedules, TeacherOf(resp.user)) = <<>>

(* ---------------------------------------------------------------------- *)
(* C9                                                                      *)
(* ---------------------------------------------------------------------- *)
\* C9: replace_full_schedule fails closed on a malformed subject_id: no entry
\* it has stored carries a non-null subject_id that is not a well-formed
\* identifier (a batch with such an entry is aborted, not stored).
C9_ReplaceRejectsMalformedSubject ==
  resp.op = "replace_full_schedule" =>
    \A id \in resp.inserted :
      \/ EntryById(schedules, id).subject_id = None
      \/ IsObjectId(EntryById(schedules, id).subject_id)

(* ---------------------------------------------------------------------- *)
(* C10                                                                     *)
(* ---------------------------------------------------------------------- *)
\* the place of the entry with identifier id in the store (the query order)
Pos(id) == CHOOSE k \in 1..Len(schedules) : schedules[k]._id = id

\* C10: the classes get_today_schedule returns are in ascending order of
\* start_time read as HH:MM when every returned start_time parses, and in the
\* order of the query, none moved, when one of them does not parse.
C10_TodaySortedOrUntouched ==
  (resp.op = "get_today_schedule" /\ resp.status = 200) =>
    LET cls == resp.classes
    IN  IF \A i \in 1..Len(cls) : strptime(cls[i].start_time) # ValueError
        THEN \A i, j \in 1..Len(cls) :
               i < j => strptime(cls[i].start_time) <= strptime(cls[j].start_time)
        ELSE \A i, j \in 1..Len(cls) : i < j => Pos(cls[i].id) < Pos(cls[j].id)

\* get_today_schedule has returned two classes in another order than the store's
C10_Witness ==
  /\ resp.op = "get_today_schedule" /\ resp.status = 200
  /\ \E i, j \in 1..Len(resp.classes) :
       i < j /\ Pos(resp.classes[i].id) > Pos(resp.classes[j].id)

(* ---------------------------------------------------------------------- *)
(* C11                                                                     *)
(* ---------------------------------------------------------------------- *)
\* C11: whatever the store holds (entries without start_time or end_time,
\* with a start_time that does not parse, with a subject_id that resolves to
\* no subject), get_full_schedule and get_today_schedule called by a teacher
\* or student who has a profile return a result: the request never fails.
C11_ReadsNeverFail ==
  (resp.op \in ReadOps /\ resp.user \in TeacherUsers \cup StudentUsers) =>
    resp.status = 200

(* ---------------------------------------------------------------------- *)
(* C14                                                                     *)
(* ---------------------------------------------------------------------- *)
\* C14 as stated: every mutation called by a caller whose role is not teacher
\* is answered 403, called by a teacher without a teacher profile it is
\* answered 404, and in both cases the store is left as it was.
C14_TurnedAwayUnchanged ==
  [][ (resp'.op \in MutationOps /\ (resp'.user.role # "teacher" \/ Unlinked(resp'.user))) =>
        /\ schedules' = schedules
        /\ resp'.status = IF resp'.user.role # "teacher" THEN 403 ELSE 404 ]_vars

\* C14 amended: as above, except that delete_schedule_entry looks at the id
\* before it looks for the profile, so a teacher without a profile who sends a
\* malformed id is answered 400; the store is left as it was in every case.
C14_TurnedAwayUnchanged_IdFirst ==
  [][ (resp'.op \in MutationOps /\ (resp'.user.role # "teacher" \/ Unlinked(resp'.user))) =>
        /\ schedules' = schedules
        /\ resp'.status =
             IF resp'.user.role # "teacher" THEN 403
             ELSE IF resp'.op = "delete_schedule_entry"
                     /\ ~ScheduleId_is_valid(resp'.schedule_id) THEN 400
             ELSE 404 ]_vars

\* a teacher without a profile has asked to delete an entry that exists, was
\* answered 404, and the entry is still stored
C14_Witness ==
  /\ resp.op = "delete_schedule_entry"
  /\ resp.user.role = "teacher" /\ Unlinked(resp.user)
  /\ resp.schedule_id \in Ids(schedules)
  /\ resp.status = 404

(* ---------------------------------------------------------------------- *)
(* C17                                                                     *)
(* ---------------------------------------------------------------------- *)
\* the entries the query of get_today_schedule matches for the caller of the
\* last response, on the day of that response
Matched ==
  SelectSeq(schedules, LAMBDA s :
    /\ s.day = resp.current_day
    /\ IF resp.user \in TeacherUsers
       THEN s.teacher_id = TeacherOf(resp.user)._id
       ELSE /\ s.branch = StudentOf(resp.user).branch
            /\ s.semester = StudentOf(resp.user).semester)

C15_ReplaceNotAtomic ==
  /\ [][ Len(calls') > Len(calls) =>
           /\ calls'[Len(calls')].pc = "deleted"
           /\ calls'[Len(calls')].inserted = {}
           /\ OwnedBy(schedules', TeacherOf(calls'[Len(calls')].user)) = <<>> ]_vars
  /\ []( (resp.op \in ReadOps /\ resp.user \in TeacherUsers
           /\ OwnedBy(schedules, TeacherOf(resp.user)) = <<>>) =>
          (resp.status = 200 /\ resp.classes = <<>>) )
  /\ [][ \A i \in 1..Len(calls) :
           calls[i].pc = "crashed" \/ calls'[i].pc = "crashed" =>
             /\ calls'[i].pc = "crashed" /\ calls'[i].inserted = {}
             /\ calls[i].pc = "deleted" => schedules' = schedules ]_vars

\* a teacher who had entries called replace_full_schedule with a list the
\* loop accepts, read the schedule between the phases and got no class, and
\* the call crashed before it inserted: the teacher is left with no entry
C15_Witness ==
  /\ resp.op \in ReadOps /\ resp.status = 200 /\ resp.classes = <<>>
  /\ \E i \in 1..Len(calls) :
       /\ calls[i].user = resp.user
       /\ calls[i].pc = "crashed"
       /\ calls[i].deleted_count > 0
       /\ OwnedBy(schedules, TeacherOf(calls[i].user)) = <<>>

(* ---------------------------------------------------------------------- *)
(* C19                                                                     *)
(* ---------------------------------------------------------------------- *)
\* C19: when two replace_full_schedule calls of the same teacher, each with a
\* non-empty list that is accepted, have both completed, the teacher's
\* entries are those one of the two calls inserted: the store never holds the
\* entries of both lists together.
C19_OneReplaceWins ==
  \A i, j \in 1..Len(calls) :
    ( /\ i # j /\ calls[i].user = calls[j].user
      /\ calls[i].pc = "done" /\ calls[i].inserted # {}
      /\ calls[j].pc = "done" /\ calls[j].inserted # {}
      /\ \A k \in 1..Len(calls) : calls[k].pc # "deleted" ) =>
      \A mine \in { Ids(OwnedBy(schedules, TeacherOf(calls[i].user))) } :
        mine = calls[i].inserted \/ mine = calls[j].inserted

(* ---------------------------------------------------------------------- *)
(* C18                                                                     *)
(* ---------------------------------------------------------------------- *)
\* C18: no mutation called by one teacher changes the entries of another
\* teacher: every create, delete and replace leaves the entries whose
\* teacher_id is another profile as they were, and so does each phase of
\* replace_full_schedule taken on its own from any store, whoever calls it
\* with whatever body, so that no interleaving of such steps changes them.
C18_OwnershipIsolation ==
  /\ [][ resp'.op \in MutationOps =>
           \A t \in teachers :
             t.user_id # resp'.user._id =>
               OwnedBy(schedules', t) = OwnedBy(schedules, t) ]_vars
  /\ []( \A u \in Users, t \in teachers :
           t.user_id # u._id =>
             \A l \in { e \in ListsOf(u) : Len(e) <= 1 } :
               /\ OwnedBy(replace_delete_phase(l, u, schedules).store, t)
                    = OwnedBy(schedules, t)
               /\ (l # <<>> /\ ~TurnedAway(u)) =>
                    OwnedBy(replace_insert_phase(l, u, schedules, nextId).store, t)
                      = OwnedBy(schedules, t) )

\* a teacher's replace_full_schedule deleted that teacher's entries while
\* another teacher has entries in the store
C18_Witness ==
  /\ resp.op = "replace_full_schedule" /\ resp.status = 200
  /\ resp.deleted # <<>>
  /\ \E t \in teachers :
       t.user_id # resp.user._id /\ OwnedBy(schedules, t) # <<>>

(* ---------------------------------------------------------------------- *)
(* C12                                                                     *)
(* ---------------------------------------------------------------------- *)
\* C12: a run of migrate that finds the schedules collection non-empty
\* inserts nothing and leaves the collection as it is; so of the runs made
\* one after the other at most one inserts, and the collection holds one
\* migrated entry for each period that run collected, never a second copy.
C12_PopulatedIsNoOp ==
  /\ [][ (Len(runs') > Len(runs) /\ Len(schedules) > 0) =>
           /\ schedules' = schedules /\ nextId' = nextId
           /\ runs'[Len(runs')].pc = "skipped"
           /\ runs'[Len(runs')].count = Len(schedules)
           /\ runs'[Len(runs')].inserted = {} ]_vars
  /\ []( \A i \in 1..Len(runs) :
           runs[i].inserted # {} =>
             /\ \A j \in 1..Len(runs) : j # i => runs[j].inserted = {}
             /\ Content(schedules) = runs[i].new_schedules )

\* a first run inserted entries and the run after it found them and skipped
C12_Witness ==
  /\ Len(runs) >= 2
  /\ runs[1].inserted # {}
  /\ runs[2].pc = "skipped" /\ runs[2].count = Cardinality(runs[1].inserted)

(* ---------------------------------------------------------------------- *)
(* C13                                                                     *)
(* ---------------------------------------------------------------------- *)
\* the periods of the legacy timetable with their teacher and day, in order
LegacyPeriodsOf(db_teachers) ==
  Concat([t \in 1..Len(db_teachers) |->
    Concat([d \in 1..Len(db_teachers[t].timetable) |->
      [p \in 1..Len(db_teachers[t].timetable[d].periods) |->
         [teacher |-> db_teachers[t], day |-> db_teachers[t].timetable[d].day,
          period |-> db_teachers[t].timetable[d].periods[p]]]])])

\* n is the first integer embedded in the label: the value of a run of
\* digits that no digit precedes and no digit follows
IsFirstInteger(label, n) ==
  \E cs \in { Chars(label) } :
    \E i \in 1..Len(cs) : \E j \in i..Len(cs) :
      /\ \A k \in 1..(i - 1) : cs[k] \notin Digits
      /\ \A k \in i..j : cs[k] \in Digits
      /\ j < Len(cs) => cs[j + 1] \notin Digits
      /\ n = int(SubSeq(cs, i, j))

\* the grade label of a period, None when it has none
GradeLabel(period) ==
  IF period.metadata.is = "dict" THEN period.metadata.grade ELSE None

\* C13: a run of migrate on an empty schedules collection leaves in it
\* exactly one entry for each legacy period that has a day, a start and an
\* end, and none for any other period; each entry has the teacher_id and
\* branch of its teacher record, and as semester the first integer embedded
\* in the grade label, or null when there is no label or no integer in it.
C13_MigratesEveryQualifyingPeriod ==
  [][ (Len(runs') > Len(runs) /\ schedules = <<>>) =>
        \E qualifying \in { SelectSeq(LegacyPeriodsOf(legacy),
                               LAMBDA q : /\ Truthy(q.day) /\ Truthy(q.period.start)
                                          /\ Truthy(q.period.end)) } :
          /\ Len(schedules') = Len(qualifying)
          /\ \A i \in 1..Len(qualifying) :
               /\ schedules'[i].day = qualifying[i].day
               /\ schedules'[i].start_time = qualifying[i].period.start
               /\ schedules'[i].end_time = qualifying[i].period.end
               /\ schedules'[i].teacher_id = qualifying[i].teacher._id
               /\ schedules'[i].branch = qualifying[i].teacher.branch
               /\ \E label \in { GradeLabel(qualifying[i].period) } :
                    IF Truthy(label) /\ \E n \in 0..99 : IsFirstInteger(label, n)
                    THEN IsFirstInteger(label, schedules'[i].semester)
                    ELSE schedules'[i].semester = NoneInt ]_vars

(* ---------------------------------------------------------------------- *)
(* C16                                                                     *)
(* ---------------------------------------------------------------------- *)
\* C16: the guard of migrate is not atomic with its insert. A run looks at
\* the count only when it starts, and skips exactly when that count is
\* positive; a run that passed the guard and built new_schedules inserts all
\* of them after whatever the collection holds by then.
C16_GuardNotAtomic ==
  /\ [][ Len(runs') > Len(runs) =>
           /\ schedules' = schedules
           /\ runs'[Len(runs')].pc = "skipped" <=> Len(schedules) > 0 ]_vars
  /\ [][ \A i \in 1..Len(runs) :
           (runs[i].pc = "scanned" /\ runs'[i].pc = "done") =>
             /\ SubSeq(schedules', 1, Len(schedules)) = schedules
             /\ Content(SubSeq(schedules', Len(schedules) + 1, Len(schedules')))
                  = runs[i].new_schedules ]_vars

\* two runs both counted an empty collection and both inserted: every
\* qualifying legacy period is in the collection twice
C16_Witness ==
  \E i, j \in 1..Len(runs) :
    /\ i # j
    /\ runs[i].pc = "done" /\ runs[i].count = 0 /\ runs[i].inserted # {}
    /\ runs[j].pc = "done" /\ runs[j].count = 0 /\ runs[j].inserted # {}
    /\ Content(schedules) = runs[i].new_schedules \o runs[j].new_schedules
    /\ runs[i].new_schedules = runs[j].new_schedules

(* ---------------------------------------------------------------------- *)
(* C20                                                                     *)
(* ---------------------------------------------------------------------- *)
\* how often x occurs in the sequence s
Occurrences(s, x) == Cardinality({ i \in 1..Len(s) : s[i] = x })

\* C20: save_embedding loses no embedding. Once every save_embedding call
\* for a student has completed, however the calls interleaved,
\* get_embeddings finds the student's list and the list holds the embedding
\* of every completed call, each at least as often as it was saved.
C20_NoEmbeddingLost ==
  \A student_id \in StudentIds :
    (\A i \in 1..Len(saves) :
       saves[i].student_id = student_id => saves[i].pc = "done") =>
      \A mine \in { SelectSeq(saves, LAMBDA c : c.student_id = student_id) } :
        mine # <<>> =>
          \E got \in { get_embeddings(files, student_id) } :
            /\ got.found
            /\ \A e \in Embeddings :
                 Occurrences(got.embeddings, e)
                   >= Cardinality({ i \in 1..Len(mine) : mine[i].embedding = e })

====
